---- MODULE Spec2Model ----
(***************************************************************************)
(* A model of philiri_forms_sys/app.py: the placement engine               *)
(* (compute_total, starting_point_for), the roster ordering (_sort_rows),  *)
(* the template locator / populator / fallback builder of the DOCX export  *)
(* and the GST roster routes.                                              *)
(*                                                                         *)
(* Python strings are sequences of one-character strings, so that upper(), *)
(* strip(), startswith(), "in", str() and int() are computed character by  *)
(* character.                                                              *)
(***************************************************************************)
EXTENDS Integers, Sequences, FiniteSets, TLC

\* ------------------------------------------------------------ bounds
\* Largest total tried by the placement calls (the thresholds are 16 and 28).
MaxTotal == 30
\* Longest row list handed to _sort_rows.
MaxSortRows == 3
\* Most tables in a template document.
MaxTables == 2
\* Longest row list handed to the document builders.
MaxDocRows == 2
\* Most learner rows in one POST.
MaxLearners == 2

\* ------------------------------------------------------------ configuration
ITEMS_TOTAL == 40
DISCONTINUE_THRESHOLD == 28
ONE_BELOW_THRESHOLD == 16

\* ------------------------------------------------------------ Python strings
\* The printable ASCII characters in code point order, from 32 (space); the
\* double quote (34), the backslash (92) and the back quote (96) are spelled out.
Ascii ==
  << " ", "!", "dquote", "#", "$", "%", "&", "'", "(", ")", "*", "+", ",", "-", ".", "/",
     "0", "1", "2", "3", "4", "5", "6", "7", "8", "9", ":", ";", "<", "=", ">", "?",
     "@", "A", "B", "C", "D", "E", "F", "G", "H", "I", "J", "K", "L", "M", "N", "O",
     "P", "Q", "R", "S", "T", "U", "V", "W", "X", "Y", "Z", "[", "backslash", "]", "^", "_",
     "backquote", "a", "b", "c", "d", "e", "f", "g", "h", "i", "j", "k", "l", "m", "n", "o",
     "p", "q", "r", "s", "t", "u", "v", "w", "x", "y", "z", "{", "|", "}", "~" >>

\* The characters of the model: printable ASCII and the line break.
Chars == {Ascii[i] : i \in 1..Len(Ascii)} \cup {"\n"}

\* ord(c), as a table
OrdTable ==
  [c \in Chars |-> IF c = "\n" THEN 10 ELSE 31 + (CHOOSE i \in 1..Len(Ascii) : Ascii[i] = c)]

Ord(c) == OrdTable[c]

\* chr(n)
Chr(n) == Ascii[n - 31]

\* str.upper() on one character, as a table
UpperTable ==
  [c \in Chars |-> IF OrdTable[c] >= 97 /\ OrdTable[c] <= 122 THEN Chr(OrdTable[c] - 32) ELSE c]

UpperChar(c) == UpperTable[c]

\* str.lower() on one character, as a table
LowerTable ==
  [c \in Chars |-> IF OrdTable[c] >= 65 /\ OrdTable[c] <= 90 THEN Chr(OrdTable[c] + 32) ELSE c]

LowerChar(c) == LowerTable[c]

\* s.upper()
Upper(s) == [i \in 1..Len(s) |-> UpperChar(s[i])]

\* s.lower()
Lower(s) == [i \in 1..Len(s) |-> LowerChar(s[i])]

\* s.strip(): leading and trailing white space removed
Strip(s) ==
  LET ns == {i \in 1..Len(s) : s[i] \notin {" ", "\n"}}
  IN  IF ns = {} THEN << >>
      ELSE LET lo == CHOOSE i \in ns : \A j \in ns : i <= j
               hi == CHOOSE i \in ns : \A j \in ns : i >= j
           IN  SubSeq(s, lo, hi)

\* s.startswith(p)
StartsWith(s, p) == Len(s) >= Len(p) /\ SubSeq(s, 1, Len(p)) = p

\* p in s
Contains(s, p) == \E i \in 0..(Len(s) - Len(p)) : SubSeq(s, i + 1, i + Len(p)) = p

\* a < b for str: lexicographic on code points
StrLess(a, b) ==
  \E k \in 1..(Len(b)) :
     /\ k <= Len(a) + 1
     /\ \A j \in 1..(k - 1) : a[j] = b[j]
     /\ (k = Len(a) + 1 \/ Ord(a[k]) < Ord(b[k]))

\* str(n) for an int
RECURSIVE StrNat(_)
StrNat(n) == IF n < 10 THEN << Chr(48 + n) >> ELSE StrNat(n \div 10) \o << Chr(48 + (n % 10)) >>

PyStr(n) == IF n < 0 THEN << "-" >> \o StrNat(0 - n) ELSE StrNat(n)

\* ------------------------------------------------------------ Python values
\* The values a form field or a JSON number field can hold.
PyNone == [t |-> "none"]
PyI(n) == [t |-> "int", v |-> n]
PyS(s) == [t |-> "str", s |-> s]

\* bool(x)
Truthy(x) ==
  CASE x.t = "none" -> FALSE
    [] x.t = "int" -> x.v # 0
    [] x.t = "str" -> x.s # << >>

\* x or 0
OrZero(x) == IF Truthy(x) THEN x ELSE PyI(0)

IsDigit(c) == Ord(c) >= 48 /\ Ord(c) <= 57

RECURSIVE DigitsValue(_)
DigitsValue(s) ==
  IF s = << >> THEN 0
  ELSE 10 * DigitsValue(SubSeq(s, 1, Len(s) - 1)) + (Ord(s[Len(s)]) - 48)

\* int(x): the integer, or ValueError for a string that is no integer literal
\* and TypeError for None.
PyInt(x) ==
  CASE x.t = "int" -> [ok |-> TRUE, v |-> x.v]
    [] x.t = "none" -> [ok |-> FALSE, exc |-> "TypeError"]
    [] x.t = "str" ->
         LET s == Strip(x.s)
             signed == s # << >> /\ s[1] \in {"+", "-"}
             digits == IF signed THEN Tail(s) ELSE s
         IN  IF digits # << >> /\ \A i \in 1..Len(digits) : IsDigit(digits[i])
             THEN [ok |-> TRUE,
                   v |-> IF signed /\ s[1] = "-" THEN 0 - DigitsValue(digits)
                         ELSE DigitsValue(digits)]
             ELSE [ok |-> FALSE, exc |-> "ValueError"]

\* ------------------------------------------------------------ logic helpers
Max(a, b) == IF a >= b THEN a ELSE b
Min(a, b) == IF a <= b THEN a ELSE b

clamp(n, lo, hi) == Max(lo, Min(hi, n))

\* compute_total: int(lit or 0) + int(inf or 0) + int(cri or 0), the operands
\* evaluated left to right; the first failing int() raises.
compute_total(lit, inf, cri) ==
  LET a == PyInt(OrZero(lit))
      b == PyInt(OrZero(inf))
      c == PyInt(OrZero(cri))
  IN  IF ~a.ok THEN [raised |-> TRUE, exc |-> a.exc]
      ELSE IF ~b.ok THEN [raised |-> TRUE, exc |-> b.exc]
      ELSE IF ~c.ok THEN [raised |-> TRUE, exc |-> c.exc]
      ELSE [raised |-> FALSE, v |-> a.v + b.v + c.v]

DISCONTINUE == << "D", "I", "S", "C", "O", "N", "T", "I", "N", "U", "E" >>
GradePrefix == << "G", "r", "a", "d", "e", " " >>

\* Both thresholds compared with > instead of >=.
starting_point_for_gt(grade, total) ==
  IF total > DISCONTINUE_THRESHOLD THEN DISCONTINUE
  ELSE LET base == Max(1, grade - 1)
           start_level == Max(1, IF total > ONE_BELOW_THRESHOLD THEN base - 1 ELSE base - 2)
       IN  GradePrefix \o PyStr(start_level)

\* The two branches exchanged: two below from 16 up, one below under 16.
starting_point_for_swapped(grade, total) ==
  IF total >= DISCONTINUE_THRESHOLD THEN DISCONTINUE
  ELSE LET base == Max(1, grade - 1)
           start_level == Max(1, IF total >= ONE_BELOW_THRESHOLD THEN base - 2 ELSE base - 1)
       IN  GradePrefix \o PyStr(start_level)

starting_point_for(grade, total) ==
  IF total >= DISCONTINUE_THRESHOLD THEN DISCONTINUE
  ELSE LET base == Max(1, grade - 1)
           start_level == Max(1, IF total >= ONE_BELOW_THRESHOLD THEN base - 1 ELSE base - 2)
       IN  GradePrefix \o PyStr(start_level)

\* ------------------------------------------------------------ roster ordering
\* x or "" for a str-or-None field
OrEmpty(x) == IF Truthy(x) THEN x.s ELSE << >>

_gender_bucket(g) ==
  LET u == Upper(Strip(OrEmpty(g)))
  IN  IF StartsWith(u, << "M" >>) THEN 0
      ELSE IF StartsWith(u, << "F" >>) THEN 1
      ELSE 2

\* The sort key of a row: (gender bucket, trimmed upper-cased name).
SortKey(r) == << _gender_bucket(r.gender), Upper(Strip(OrEmpty(r.name))) >>

\* k1 < k2 for two keys (tuples compare element by element).
KeyLess(k1, k2) == k1[1] < k2[1] \/ (k1[1] = k2[1] /\ StrLess(k1[2], k2[2]))

\* sorted() is stable: a row goes after every row already placed whose key is
\* not greater than its own.
RECURSIVE InsertByKey(_, _)
InsertByKey(placed, r) ==
  IF placed = << >> THEN << r >>
  ELSE LET last == placed[Len(placed)]
       IN  IF KeyLess(SortKey(r), SortKey(last))
           THEN InsertByKey(SubSeq(placed, 1, Len(placed) - 1), r) \o << last >>
           ELSE placed \o << r >>

\* A row goes before the rows of equal key already placed: not stable.
RECURSIVE InsertBeforeEqual(_, _)
InsertBeforeEqual(placed, r) ==
  IF placed = << >> THEN << r >>
  ELSE LET last == placed[Len(placed)]
       IN  IF ~KeyLess(SortKey(last), SortKey(r))
           THEN InsertBeforeEqual(SubSeq(placed, 1, Len(placed) - 1), r) \o << last >>
           ELSE placed \o << r >>

RECURSIVE SortFrom(_, _)
SortFrom(placed, rest) ==
  IF rest = << >> THEN placed ELSE SortFrom(InsertByKey(placed, Head(rest)), Tail(rest))

RECURSIVE UnstableSortFrom(_, _)
UnstableSortFrom(placed, rest) ==
  IF rest = << >> THEN placed
  ELSE UnstableSortFrom(InsertBeforeEqual(placed, Head(rest)), Tail(rest))

\* A sort by the key that does not keep the input order of equal keys.
_sort_rows_unstable(rows) == UnstableSortFrom(<< >>, rows)

_sort_rows(rows) == SortFrom(<< >>, rows)

\* ------------------------------------------------------------ documents
\* A run is text with its character formatting; a paragraph is a list of runs with
\* its paragraph formatting; a cell is a list of paragraphs; a table is a grid of
\* cells with its number of grid columns; a document is its Normal style, its
\* body paragraphs and its tables in document order. A formatting property that
\* is not set (inherited) is "None".
Run(text, bold, underline, color) ==
  [text |-> text, bold |-> bold, underline |-> underline, color |-> color]

Paragraph(runs, space_before, space_after, line_spacing, alignment) ==
  [runs |-> runs, space_before |-> space_before, space_after |-> space_after,
   line_spacing |-> line_spacing, alignment |-> alignment]

\* A paragraph as add_p / add_paragraph makes it: nothing set.
NewParagraph(runs) == Paragraph(runs, "None", "None", "None", "None")

RECURSIVE RunsText(_)
RunsText(runs) == IF runs = << >> THEN << >> ELSE Head(runs).text \o RunsText(Tail(runs))

\* paragraph.text
ParagraphText(p) == RunsText(p.runs)

\* cell.text: the paragraphs' texts joined by a line break
RECURSIVE JoinParagraphs(_)
JoinParagraphs(ps) ==
  IF ps = << >> THEN << >>
  ELSE IF Len(ps) = 1 THEN ParagraphText(ps[1])
  ELSE ParagraphText(ps[1]) \o << "\n" >> \o JoinParagraphs(Tail(ps))

CellText(cell) == JoinParagraphs(cell.paragraphs)

\* _set_p_no_space
_set_p_no_space(p) ==
  [p EXCEPT !.space_before = "Pt(0)", !.space_after = "Pt(0)", !.line_spacing = "1"]

\* _set_cell_paras_no_space
_set_cell_paras_no_space(cell) ==
  [paragraphs |-> [i \in 1..Len(cell.paragraphs) |-> _set_p_no_space(cell.paragraphs[i])]]

\* _cell_set_text: cell.text = "" leaves one new paragraph holding one empty run;
\* the paragraph is made tight and aligned, and the text is added as a second run.
_cell_set_text(cell, text, bold, underline, align, upper) ==
  LET p0 == NewParagraph(<< Run(<< >>, "None", "None", "None") >>)
      p1 == _set_p_no_space(p0)
      p2 == IF align # "None" THEN [p1 EXCEPT !.alignment = align] ELSE p1
      run_text == IF upper THEN Upper(OrEmpty(text)) ELSE OrEmpty(text)
      r == Run(run_text, IF bold THEN "True" ELSE "False",
               IF underline THEN "True" ELSE "None", "None")
  IN  [paragraphs |-> << [p2 EXCEPT !.runs = @ \o << r >>] >>]

\* _norm
_norm(s) == Lower(Strip(s))

\* len(tbl.rows), len(tbl.columns)
NRows(tbl) == Len(tbl.rows)
NCols(tbl) == tbl.ncols

\* tbl.cell(r, c), rows and columns counted from 0, is defined on a grid
HasCell(tbl, r, c) == r < NRows(tbl) /\ c < Len(tbl.rows[r + 1])
TblCell(tbl, r, c) == tbl.rows[r + 1][c + 1]

_looks_like_meta_table(tbl) ==
  IF NRows(tbl) >= 3 /\ NCols(tbl) >= 4
  THEN IF ~(HasCell(tbl, 0, 0) /\ HasCell(tbl, 0, 2)) THEN FALSE
       ELSE LET a == _norm(CellText(TblCell(tbl, 0, 0)))
                b == _norm(CellText(TblCell(tbl, 0, 2)))
            IN  \/ (StartsWith(a, << "t", "e", "a", "c", "h", "e", "r" >>) /\ StartsWith(b, << "g", "r", "a", "d", "e" >>))
                \/ (StartsWith(a, << "g", "u", "r", "o" >>) /\ StartsWith(b, << "a", "n", "t", "a", "s" >>))
  ELSE FALSE

\* " ".join(parts)
RECURSIVE JoinSpace(_)
JoinSpace(parts) ==
  IF parts = << >> THEN << >>
  ELSE IF Len(parts) = 1 THEN parts[1]
  ELSE parts[1] \o << " " >> \o JoinSpace(Tail(parts))

_looks_like_results_table(tbl) ==
  IF NRows(tbl) = 0 THEN FALSE
  ELSE LET cells == tbl.rows[1]
           hdr == JoinSpace([i \in 1..Len(cells) |-> Upper(Strip(CellText(cells[i])))])
           has_name == Contains(hdr, << "N", "A", "M", "E" >>) \/ Contains(hdr, << "P", "A", "N", "G", "A", "L", "A", "N" >>)
           has_gender == Contains(hdr, << "G", "E", "N", "D", "E", "R" >>) \/ Contains(hdr, << "K", "A", "S", "A", "R", "I", "A", "N" >>)
           has_score == Contains(hdr, << "S", "C", "O", "R", "E" >>) \/ Contains(hdr, << "M", "A", "R", "K", "A" >>)
       IN  has_name /\ has_gender /\ has_score

\* The loop over doc.tables, from table i on, with the tables found so far (0:
\* none). A table taken as the metadata table is not tried as the results table.
RECURSIVE LocateFrom(_, _, _, _)
LocateFrom(tables, i, meta_tbl, results_tbl) ==
  IF i > Len(tables) THEN [meta_tbl |-> meta_tbl, results_tbl |-> results_tbl]
  ELSE LET takeMeta == meta_tbl = 0 /\ _looks_like_meta_table(tables[i])
           takeResults == ~takeMeta /\ results_tbl = 0 /\ _looks_like_results_table(tables[i])
           m == IF takeMeta THEN i ELSE meta_tbl
           r == IF takeResults THEN i ELSE results_tbl
       IN  IF m # 0 /\ r # 0 THEN [meta_tbl |-> m, results_tbl |-> r]
           ELSE LocateFrom(tables, i + 1, m, r)

\* The loop with two independent tests: a table can be taken as both.
RECURSIVE LocateIndependentFrom(_, _, _, _)
LocateIndependentFrom(tables, i, meta_tbl, results_tbl) ==
  IF i > Len(tables) THEN [meta_tbl |-> meta_tbl, results_tbl |-> results_tbl]
  ELSE LET takeMeta == meta_tbl = 0 /\ _looks_like_meta_table(tables[i])
           takeResults == results_tbl = 0 /\ _looks_like_results_table(tables[i])
           m == IF takeMeta THEN i ELSE meta_tbl
           r == IF takeResults THEN i ELSE results_tbl
       IN  IF m # 0 /\ r # 0 THEN [meta_tbl |-> m, results_tbl |-> r]
           ELSE LocateIndependentFrom(tables, i + 1, m, r)

LocateIndependent(tables) == LocateIndependentFrom(tables, 1, 0, 0)

\* The table scan of _fill_template_tables.
Locate(tables) == LocateFrom(tables, 1, 0, 0)

\* A cell as add_row / add_table makes it: one paragraph without runs.
EmptyCell == [paragraphs |-> << NewParagraph(<< >>) >>]

\* WD_ALIGN_PARAGRAPH.CENTER
CENTER == "CENTER"

\* table.cell(r, c) replaced by a new cell
WithCell(tbl, r, c, cell) == [tbl EXCEPT !.rows[r + 1][c + 1] = cell]

\* _cell_set_text(tbl.cell(r, c), text, underline=True)
SetValue(tbl, r, c, text) ==
  WithCell(tbl, r, c, _cell_set_text(TblCell(tbl, r, c), text, FALSE, TRUE, "None", TRUE))

\* for c in cells: _set_cell_paras_no_space(c)
TightenCells(cells) == [i \in 1..Len(cells) |-> _set_cell_paras_no_space(cells[i])]

\* for r in tbl.rows: for c in r.cells: _set_cell_paras_no_space(c)
TightenTable(tbl) == [tbl EXCEPT !.rows = [i \in 1..Len(tbl.rows) |-> TightenCells(tbl.rows[i])]]

\* The six metadata values, then every cell of the table made tight.
FillMeta(tbl, cls_dict, type_of_test_text) ==
  LET t1 == SetValue(tbl, 0, 1, cls_dict.teacher)
      t2 == SetValue(t1, 0, 3, PyS(PyStr(cls_dict.grade)))
      t3 == SetValue(t2, 1, 1, cls_dict.school)
      t4 == SetValue(t3, 1, 3, cls_dict.section)
      t5 == SetValue(t4, 2, 1, type_of_test_text)
      t6 == SetValue(t5, 2, 3, cls_dict.date_text)
  IN  TightenTable(t6)

\* while len(tbl.rows) < needed: tbl.add_row(): a row of one empty cell per grid column
RECURSIVE AddRows(_, _)
AddRows(tbl, needed) ==
  IF NRows(tbl) >= needed THEN tbl
  ELSE AddRows([tbl EXCEPT !.rows = @ \o << [c \in 1..NCols(tbl) |-> EmptyCell] >>], needed)

\* The name and the gender exchanged.
RowValueSwapped(i, rec, k) ==
  CASE k = 1 -> [text |-> PyS(PyStr(i)), align |-> CENTER, upper |-> FALSE]
    [] k = 2 -> [text |-> rec.gender, align |-> "None", upper |-> TRUE]
    [] k = 3 -> [text |-> rec.name, align |-> CENTER, upper |-> TRUE]
    [] k = 4 -> [text |-> PyS(PyStr(rec.score)), align |-> CENTER, upper |-> FALSE]
    [] k = 5 -> [text |-> rec.start, align |-> CENTER, upper |-> TRUE]

\* The five values of one results row: the running number, the name, the gender,
\* the score and the start label, with their alignment and upper-casing.
RowValue(i, rec, k) ==
  CASE k = 1 -> [text |-> PyS(PyStr(i)), align |-> CENTER, upper |-> FALSE]
    [] k = 2 -> [text |-> rec.name, align |-> "None", upper |-> TRUE]
    [] k = 3 -> [text |-> rec.gender, align |-> CENTER, upper |-> TRUE]
    [] k = 4 -> [text |-> PyS(PyStr(rec.score)), align |-> CENTER, upper |-> FALSE]
    [] k = 5 -> [text |-> rec.start, align |-> CENTER, upper |-> TRUE]

\* cells[0] .. cells[4] written in turn; cells[k] of a shorter row raises
\* IndexError after the cells before it were written. A complete row is then
\* made tight.
WriteRow(cells, i, rec) ==
  LET written == [k \in 1..Len(cells) |->
                    IF k <= 5
                    THEN LET v == RowValue(i, rec, k)
                         IN  _cell_set_text(cells[k], v.text, FALSE, FALSE, v.align, v.upper)
                    ELSE cells[k]]
  IN  IF Len(cells) < 5 THEN [cells |-> written, raised |-> TRUE]
      ELSE [cells |-> TightenCells(written), raised |-> FALSE]

\* for i, rec in enumerate(rows, start=1), from row i on
RECURSIVE WriteRowsFrom(_, _, _)
WriteRowsFrom(tbl, rows, i) ==
  IF i > Len(rows) THEN [tbl |-> tbl, raised |-> FALSE]
  ELSE LET w == WriteRow(tbl.rows[1 + i], i, rows[i])
           t == [tbl EXCEPT !.rows[1 + i] = w.cells]
       IN  IF w.raised THEN [tbl |-> t, raised |-> TRUE]
           ELSE WriteRowsFrom(t, rows, i + 1)

\* The blanking started one row late: the row after the last input row is kept.
BlankExtraRowsLate(tbl, n) ==
  [tbl EXCEPT !.rows =
     [i \in 1..Len(tbl.rows) |->
        IF i > 2 + n
        THEN [k \in 1..Len(tbl.rows[i]) |->
                _cell_set_text(tbl.rows[i][k], PyS(<< >>), FALSE, FALSE, "None", FALSE)]
        ELSE tbl.rows[i]]]

\* for r in tbl.rows[1 + len(rows):]: every cell set to ""
BlankExtraRows(tbl, n) ==
  [tbl EXCEPT !.rows =
     [i \in 1..Len(tbl.rows) |->
        IF i > 1 + n
        THEN [k \in 1..Len(tbl.rows[i]) |->
                _cell_set_text(tbl.rows[i][k], PyS(<< >>), FALSE, FALSE, "None", FALSE)]
        ELSE tbl.rows[i]]]

\* for c in tbl.rows[0].cells: _set_cell_paras_no_space(c)
TightenHeader(tbl) == [tbl EXCEPT !.rows[1] = TightenCells(@)]

\* _fill_template_tables: the document afterwards, the tables located (0: none),
\* and either the value returned or the exception raised.
_fill_template_tables_with(doc, cls_dict, rows, type_of_test_text, found) ==
  IF found.meta_tbl = 0 \/ found.results_tbl = 0
  THEN [doc |-> doc, found |-> found, raised |-> FALSE, ret |-> FALSE]
  ELSE LET m == found.meta_tbl
           r == found.results_tbl
           d1 == [doc EXCEPT !.tables[m] = FillMeta(@, cls_dict, type_of_test_text)]
           needed == 1 + Max(1, Len(rows))
           grown == AddRows(d1.tables[r], needed)
           w == WriteRowsFrom(grown, rows, 1)
       IN  IF w.raised
           THEN [doc |-> [d1 EXCEPT !.tables[r] = w.tbl], found |-> found,
                 raised |-> TRUE, exc |-> "IndexError"]
           ELSE [doc |-> [d1 EXCEPT !.tables[r] = TightenHeader(BlankExtraRows(w.tbl, Len(rows)))],
                 found |-> found, raised |-> FALSE, ret |-> TRUE]

_fill_template_tables(doc, cls_dict, rows, type_of_test_text) ==
  _fill_template_tables_with(doc, cls_dict, rows, type_of_test_text, Locate(doc.tables))

\* A title paragraph of the fallback layout: one bold run of the given size, centered.
TitleParagraph(text, size) ==
  [text |-> text, bold |-> "True", size |-> size, alignment |-> CENTER,
   space_before |-> "Pt(0)", space_after |-> "Pt(0)", line_spacing |-> "1"]

\* doc.add_table(rows, cols)
NewTable(nrows, ncols) ==
  [ncols |-> ncols, autofit |-> "None",
   rows |-> [r \in 1..nrows |-> [c \in 1..ncols |-> EmptyCell]]]

FallbackLabels ==
  << << << "T", "e", "a", "c", "h", "e", "r", ":" >>, << "G", "r", "a", "d", "e", ":" >> >>,
     << << "S", "c", "h", "o", "o", "l", ":" >>, << "S", "e", "c", "t", "i", "o", "n", ":" >> >>,
     << << "T", "y", "p", "e", " ", "o", "f", " ", "T", "e", "s", "t", ":" >>, << "D", "a", "t", "e", ":" >> >> >>

FallbackHeaders ==
  << << "#" >>, << "N", "A", "M", "E" >>, << "G", "E", "N", "D", "E", "R" >>, << "S", "C", "O", "R", "E" >>, << "S", "T", "A", "R", "T", " ", "L", "E", "V", "E", "L", " ", "O", "F", " ", "G", "R", "A", "D", "E", " ", "P", "A", "S", "S", "A", "G", "E" >> >>

\* _fallback_build: two title paragraphs, a 3x4 metadata table (labels bold as
\* given, values upper-cased and underlined) and a results table of a bold centered
\* header row and one row per record, appended to the document.
_fallback_build(doc, cls_dict, rows, title1, title2, type_of_test_text) ==
  LET vals == << << cls_dict.teacher, PyS(PyStr(cls_dict.grade)) >>,
                 << cls_dict.school, cls_dict.section >>,
                 << type_of_test_text, cls_dict.date_text >> >>
      t == [NewTable(3, 4) EXCEPT !.autofit = "True"]
      meta == [t EXCEPT !.rows =
                 [r \in 1..3 |->
                    << _cell_set_text(t.rows[r][1], PyS(FallbackLabels[r][1]), TRUE, FALSE, "None", FALSE),
                       _cell_set_text(t.rows[r][2], vals[r][1], FALSE, TRUE, "None", TRUE),
                       _cell_set_text(t.rows[r][3], PyS(FallbackLabels[r][2]), TRUE, FALSE, "None", FALSE),
                       _cell_set_text(t.rows[r][4], vals[r][2], FALSE, TRUE, "None", TRUE) >>]]
      rt == NewTable(1, 5)
      header == [i \in 1..5 |->
                   _cell_set_text(rt.rows[1][i], PyS(FallbackHeaders[i]), TRUE, FALSE, CENTER, FALSE)]
      data == [i \in 1..Len(rows) |->
                 [k \in 1..5 |->
                    LET v == RowValue(i, rows[i], k)
                    IN  _cell_set_text(EmptyCell, v.text, FALSE, FALSE, v.align, v.upper)]]
      results == [rt EXCEPT !.rows = << header >> \o data]
  IN  [doc EXCEPT !.body = @ \o << TitleParagraph(title1, "Pt(14)"), TitleParagraph(title2, "Pt(12)") >>,
                  !.tables = @ \o << meta, results >>]

\* _docx_set_defaults: the Normal style's font, size and paragraph spacing
_docx_set_defaults(doc) ==
  [doc EXCEPT !.normal = [font_name |-> "Book Antiqua", east_asia |-> "Book Antiqua",
                          font_size |-> "Pt(10)", space_before |-> "Pt(0)",
                          space_after |-> "Pt(0)", line_spacing |-> "1"]]

\* _build_gst_docx_from_template after the call of _fill_template_tables: its
\* exception is not caught; when it returned False the fallback layout is built;
\* the document is saved.
SaveFilled(fill, cls_dict, sorted, title1, title2, type_of_test_text) ==
  IF fill.raised
  THEN [outcome |-> "raised", exc |-> fill.exc, rows |-> sorted, fill |-> fill]
  ELSE IF fill.ret
  THEN [outcome |-> "returned", rows |-> sorted, fill |-> fill, fallback |-> FALSE,
        bio |-> fill.doc]
  ELSE [outcome |-> "returned", rows |-> sorted, fill |-> fill, fallback |-> TRUE,
        bio |-> _fallback_build(fill.doc, cls_dict, sorted, title1, title2,
                                type_of_test_text)]

\* _build_gst_docx_from_template: abort(500) without the document library or the
\* template file; otherwise the rows sorted, the template opened, the defaults set,
\* the template filled or, when that returns False, the fallback layout built, and
\* the document saved.
_build_gst_docx_from_template(docx_enabled, isfile, template, cls_dict, rows, title1, title2, type_of_test_text) ==
  IF ~docx_enabled THEN [outcome |-> "abort(500)", why |-> "python-docx is not installed"]
  ELSE IF ~isfile THEN [outcome |-> "abort(500)", why |-> "Word template not found"]
  ELSE SaveFilled(_fill_template_tables(_docx_set_defaults(template), cls_dict,
                                        _sort_rows(rows), type_of_test_text),
                  cls_dict, _sort_rows(rows), title1, title2, type_of_test_text)

\* ------------------------------------------------------------ templates
\* The cells of template tables: a label (bold, perhaps colored, with the
\* template's paragraph spacing) and a value placeholder.
LabelCell(text, color, spacing) ==
  [paragraphs |-> << Paragraph(<< Run(text, "True", "None", color) >>,
                               spacing, spacing, "None", "None") >>]

PlaceholderCell(text) == [paragraphs |-> << NewParagraph(<< Run(text, "None", "None", "None") >>) >>]

TemplateTable(kind) ==
  CASE kind = "MetaEn" ->
         \* the English metadata table, labels with 6 pt spacing
         [ncols |-> 4, autofit |-> "None",
          rows |-> << << LabelCell(<< "T", "e", "a", "c", "h", "e", "r", ":" >>, "None", "Pt(6)"), PlaceholderCell(<< "_", "_" >>),
                         LabelCell(<< "G", "r", "a", "d", "e", ":" >>, "None", "Pt(6)"), PlaceholderCell(<< "_", "_" >>) >>,
                      << LabelCell(<< "S", "c", "h", "o", "o", "l", ":" >>, "None", "Pt(6)"), PlaceholderCell(<< "_", "_" >>),
                         LabelCell(<< "S", "e", "c", "t", "i", "o", "n", ":" >>, "None", "Pt(6)"), PlaceholderCell(<< "_", "_" >>) >>,
                      << LabelCell(<< "T", "y", "p", "e", " ", "o", "f", " ", "T", "e", "s", "t", ":" >>, "None", "Pt(6)"), PlaceholderCell(<< "_", "_" >>),
                         LabelCell(<< "D", "a", "t", "e", ":" >>, "None", "Pt(6)"), PlaceholderCell(<< "_", "_" >>) >> >>]
    [] kind = "MetaFil" ->
         \* the Filipino metadata table, red labels, no spacing set
         [ncols |-> 4, autofit |-> "None",
          rows |-> << << LabelCell(<< " ", "G", "u", "r", "o", ":" >>, "FF0000", "None"), PlaceholderCell(<< >>),
                         LabelCell(<< "A", "N", "T", "A", "S", ":" >>, "FF0000", "None"), PlaceholderCell(<< >>) >>,
                      << LabelCell(<< "P", "a", "a", "r", "a", "l", "a", "n", ":" >>, "FF0000", "None"), PlaceholderCell(<< >>),
                         LabelCell(<< "S", "e", "k", "s", "y", "o", "n", ":" >>, "FF0000", "None"), PlaceholderCell(<< >>) >>,
                      << LabelCell(<< "U", "r", "i", ":" >>, "FF0000", "None"), PlaceholderCell(<< >>),
                         LabelCell(<< "P", "e", "t", "s", "a", ":" >>, "FF0000", "None"), PlaceholderCell(<< >>) >> >>]
    [] kind = "MetaShort" ->
         \* metadata labels in a table of two rows only
         [ncols |-> 4, autofit |-> "None",
          rows |-> << << LabelCell(<< "T", "e", "a", "c", "h", "e", "r", ":" >>, "None", "None"), PlaceholderCell(<< >>),
                         LabelCell(<< "G", "r", "a", "d", "e", ":" >>, "None", "None"), PlaceholderCell(<< >>) >>,
                      << LabelCell(<< "S", "c", "h", "o", "o", "l", ":" >>, "None", "None"), PlaceholderCell(<< >>),
                         LabelCell(<< "S", "e", "c", "t", "i", "o", "n", ":" >>, "None", "None"), PlaceholderCell(<< >>) >> >>]
    [] kind = "Results3" ->
         \* the English results table: the header and three rows to fill
         [ncols |-> 5, autofit |-> "None",
          rows |-> << << LabelCell(<< "#" >>, "None", "None"), LabelCell(<< "N", "a", "m", "e" >>, "None", "None"),
                         LabelCell(<< "G", "e", "n", "d", "e", "r" >>, "None", "None"), LabelCell(<< "S", "c", "o", "r", "e" >>, "None", "None"),
                         LabelCell(<< "S", "t", "a", "r", "t" >>, "None", "None") >> >>
                   \o [r \in 1..3 |-> [c \in 1..5 |-> PlaceholderCell(<< ".", "." >>)]]]
    [] kind = "Results0" ->
         \* the Filipino results table: the header only
         [ncols |-> 5, autofit |-> "None",
          rows |-> << << LabelCell(<< "#" >>, "FF0000", "None"), LabelCell(<< "P", "A", "N", "G", "A", "L", "A", "N" >>, "FF0000", "None"),
                         LabelCell(<< "K", "A", "S", "A", "R", "I", "A", "N" >>, "FF0000", "None"), LabelCell(<< "M", "A", "R", "K", "A" >>, "FF0000", "None"),
                         LabelCell(<< "A", "N", "T", "A", "S" >>, "FF0000", "None") >> >>]
    [] kind = "Results4" ->
         \* a results table of four columns (no running number)
         [ncols |-> 4, autofit |-> "None",
          rows |-> << << LabelCell(<< "N", "A", "M", "E" >>, "None", "None"), LabelCell(<< "G", "E", "N", "D", "E", "R" >>, "None", "None"),
                         LabelCell(<< "S", "C", "O", "R", "E" >>, "None", "None"), LabelCell(<< "S", "T", "A", "R", "T" >>, "None", "None") >>,
                      [c \in 1..4 |-> PlaceholderCell(<< >>)] >>]
    [] kind = "Both" ->
         \* a table that is a metadata table and a results table at once
         [ncols |-> 5, autofit |-> "None",
          rows |-> << << LabelCell(<< "T", "e", "a", "c", "h", "e", "r", " ", "N", "a", "m", "e" >>, "None", "None"), PlaceholderCell(<< >>),
                         LabelCell(<< "G", "r", "a", "d", "e" >>, "None", "None"), LabelCell(<< "G", "e", "n", "d", "e", "r" >>, "None", "None"),
                         LabelCell(<< "S", "c", "o", "r", "e" >>, "None", "None") >> >>
                   \o [r \in 1..2 |-> [c \in 1..5 |-> PlaceholderCell(<< >>)]]]
    [] kind = "Plain" ->
         \* a layout table that is neither
         [ncols |-> 1, autofit |-> "None", rows |-> << << PlaceholderCell(<< "L", "o", "g", "o" >>) >> >>]
    [] kind = "NoRows" ->
         \* a table without rows
         [ncols |-> 2, autofit |-> "None", rows |-> << >>]

TableKinds ==
  { "MetaEn", "MetaFil", "MetaShort", "Results3", "Results0", "Results4", "Both", "Plain", "NoRows" }

\* Document(template_path): the template's tables in document order, its Normal
\* style as the template has it, no body paragraph of the layout yet.
TemplateDocument(kinds) ==
  [normal |-> [font_name |-> "Calibri", east_asia |-> "None", font_size |-> "Pt(11)",
               space_before |-> "None", space_after |-> "Pt(8)", line_spacing |-> "None"],
   body |-> << >>,
   tables |-> [i \in 1..Len(kinds) |-> TemplateTable(kinds[i])]]


\* ------------------------------------------------------------ stored data and routes
\* str(date.today()) on the day of init_db
Today == << "2", "0", "2", "6", "-", "1", "1", "-", "0", "3" >>

\* The class init_db stores in an empty database.
DefaultClass ==
  [id |-> 1, teacher |-> << >>, school |-> << >>, grade |-> 7, section |-> << >>,
   screening_level_eng |-> << "G", "S", "T" >>, screening_level_fil |-> << "G", "S", "T" >>, date_text |-> Today]

\* Class.query.get(class_id): the class in a one-element set, or the empty set
GetClass(cs, class_id) == {cs[i] : i \in {j \in 1..Len(cs) : cs[j].id = class_id}}

\* ORDER BY name ASC: a row goes after every row already placed whose name is not
\* greater (rows of equal name stay in id order).
RECURSIVE InsertByName(_, _)
InsertByName(placed, s) ==
  IF placed = << >> THEN << s >>
  ELSE LET last == placed[Len(placed)]
       IN  IF StrLess(s.name, last.name)
           THEN InsertByName(SubSeq(placed, 1, Len(placed) - 1), s) \o << last >>
           ELSE placed \o << s >>

RECURSIVE OrderByName(_, _)
OrderByName(placed, rest) ==
  IF rest = << >> THEN placed ELSE OrderByName(InsertByName(placed, Head(rest)), Tail(rest))

\* Learner.query.filter_by(class_id=class_id).order_by(Learner.name.asc()).all()
QueryLearnersByName(ls, class_id) ==
  OrderByName(<< >>, SelectSeq(ls, LAMBDA s : s.class_id = class_id))

\* (r.get("gender", "M") or "M")[:1].upper()
GenderColumn(g) ==
  LET text == IF Truthy(g) THEN g.s ELSE << "M" >>
  IN  Upper(SubSeq(text, 1, 1))

\* The six sub-score fields of a posted row, in the order Learner(...) converts them.
ScoreFields(r) ==
  << r.eng_literal, r.eng_inferential, r.eng_critical,
     r.fil_literal, r.fil_inferential, r.fil_critical >>

\* Learner(...) for one posted row: the stored learner, or the exception of the
\* first int() that fails.
NewLearner(class_id, r) ==
  LET ints == [k \in 1..6 |-> PyInt(OrZero(ScoreFields(r)[k]))]
      bad == {k \in 1..6 : ~ints[k].ok}
  IN  IF bad # {}
      THEN [raised |-> TRUE, exc |-> ints[CHOOSE k \in bad : \A j \in bad : k <= j].exc]
      ELSE [raised |-> FALSE,
            learner |-> [class_id |-> class_id,
                         name |-> Strip(OrEmpty(r.name)),
                         gender |-> GenderColumn(r.gender),
                         took_eng |-> r.took_eng, took_fil |-> r.took_fil,
                         eng_literal |-> ints[1].v, eng_inferential |-> ints[2].v,
                         eng_critical |-> ints[3].v, fil_literal |-> ints[4].v,
                         fil_inferential |-> ints[5].v, fil_critical |-> ints[6].v]]

\* api_learners_save on the stored learners: 404 for an unknown class; otherwise
\* the class's learners replaced by the posted rows and committed, or, when a row
\* raises, nothing committed and the request failed (500).
api_learners_save_on(cs, ls, class_id, rows) ==
  IF GetClass(cs, class_id) = {} THEN [status |-> 404, learners |-> ls]
  ELSE LET made == [i \in 1..Len(rows) |-> NewLearner(class_id, rows[i])]
       IN  IF \E i \in 1..Len(rows) : made[i].raised
           THEN [status |-> 500, learners |-> ls]
           ELSE [status |-> 200,
                 learners |-> SelectSeq(ls, LAMBDA s : s.class_id # class_id)
                              \o [i \in 1..Len(rows) |-> made[i].learner]]

\* gst_en: the rows of the learners who took the English test and are not discontinued
RECURSIVE gst_en_loop(_, _, _)
gst_en_loop(grade, learners, rows) ==
  IF learners = << >> THEN rows
  ELSE LET s == Head(learners)
           total == compute_total(PyI(s.eng_literal), PyI(s.eng_inferential),
                                  PyI(s.eng_critical)).v
           sp == starting_point_for(grade, total)
       IN  IF ~s.took_eng THEN gst_en_loop(grade, Tail(learners), rows)
           ELSE IF sp # DISCONTINUE
           THEN gst_en_loop(grade, Tail(learners),
                  rows \o << [name |-> PyS(s.name), gender |-> PyS(s.gender),
                              score |-> total, start |-> PyS(sp)] >>)
           ELSE gst_en_loop(grade, Tail(learners), rows)

gst_en_rows(c, learners) == _sort_rows(gst_en_loop(c.grade, QueryLearnersByName(learners, c.id), << >>))

\* The export rows without the DISCONTINUE test: every learner who took the test.
RECURSIVE export_all_loop(_, _, _)
export_all_loop(grade, learners, rows) ==
  IF learners = << >> THEN rows
  ELSE LET s == Head(learners)
           total == compute_total(PyI(s.eng_literal), PyI(s.eng_inferential),
                                  PyI(s.eng_critical)).v
       IN  IF ~s.took_eng THEN export_all_loop(grade, Tail(learners), rows)
           ELSE export_all_loop(grade, Tail(learners),
                  rows \o << [name |-> PyS(s.name), gender |-> PyS(s.gender),
                              score |-> total, start |-> PyS(starting_point_for(grade, total))] >>)

export_gst_en_rows_unfiltered(c, learners) ==
  _sort_rows(export_all_loop(c.grade, QueryLearnersByName(learners, c.id), << >>))


\* export_gst_en_docx: the rows handed to _build_gst_docx_eng
RECURSIVE export_gst_en_loop(_, _, _)
export_gst_en_loop(grade, learners, rows) ==
  IF learners = << >> THEN rows
  ELSE LET s == Head(learners)
           total == compute_total(PyI(s.eng_literal), PyI(s.eng_inferential),
                                  PyI(s.eng_critical)).v
           sp == starting_point_for(grade, total)
       IN  IF ~s.took_eng THEN export_gst_en_loop(grade, Tail(learners), rows)
           ELSE IF sp # DISCONTINUE
           THEN export_gst_en_loop(grade, Tail(learners),
                  rows \o << [name |-> PyS(s.name), gender |-> PyS(s.gender),
                              score |-> total, start |-> PyS(sp)] >>)
           ELSE export_gst_en_loop(grade, Tail(learners), rows)

export_gst_en_rows(c, learners) == _sort_rows(export_gst_en_loop(c.grade, QueryLearnersByName(learners, c.id), << >>))

\* gst_fil: the rows of the learners who took the Filipino test and are not discontinued
RECURSIVE gst_fil_loop(_, _, _)
gst_fil_loop(grade, learners, rows) ==
  IF learners = << >> THEN rows
  ELSE LET s == Head(learners)
           total == compute_total(PyI(s.fil_literal), PyI(s.fil_inferential),
                                  PyI(s.fil_critical)).v
           sp == starting_point_for(grade, total)
       IN  IF ~s.took_fil THEN gst_fil_loop(grade, Tail(learners), rows)
           ELSE IF sp # DISCONTINUE
           THEN gst_fil_loop(grade, Tail(learners),
                  rows \o << [name |-> PyS(s.name), gender |-> PyS(s.gender),
                              score |-> total, start |-> PyS(sp)] >>)
           ELSE gst_fil_loop(grade, Tail(learners), rows)

gst_fil_rows(c, learners) == _sort_rows(gst_fil_loop(c.grade, QueryLearnersByName(learners, c.id), << >>))

\* export_gst_fil_docx: the rows handed to _build_gst_docx_fil
RECURSIVE export_gst_fil_loop(_, _, _)
export_gst_fil_loop(grade, learners, rows) ==
  IF learners = << >> THEN rows
  ELSE LET s == Head(learners)
           total == compute_total(PyI(s.fil_literal), PyI(s.fil_inferential),
                                  PyI(s.fil_critical)).v
           sp == starting_point_for(grade, total)
       IN  IF ~s.took_fil THEN export_gst_fil_loop(grade, Tail(learners), rows)
           ELSE IF sp # DISCONTINUE
           THEN export_gst_fil_loop(grade, Tail(learners),
                  rows \o << [name |-> PyS(s.name), gender |-> PyS(s.gender),
                              score |-> total, start |-> PyS(sp)] >>)
           ELSE export_gst_fil_loop(grade, Tail(learners), rows)

export_gst_fil_rows(c, learners) == _sort_rows(export_gst_fil_loop(c.grade, QueryLearnersByName(learners, c.id), << >>))

\* The type-of-test labels of the two variants.
TypeOfTestEng == PyS(<< "S", "c", "r", "e", "e", "n", "i", "n", "g", " ", "T", "e", "s", "t", " ", "L", "e", "v", "e", "l", " ", "(", "E", "n", "g", "l", "i", "s", "h", ")" >>)
TypeOfTestFil == PyS(<< "S", "c", "r", "e", "e", "n", "i", "n", "g", " ", "T", "e", "s", "t", " ", "L", "e", "v", "e", "l", " ", "(", "F", "i", "l", "i", "p", "i", "n", "o", ")" >>)

\* The template files of the two variants, as opened by Document(): a metadata
\* table and a five-column results table each.
TemplateEng == TemplateDocument(<< "MetaEn", "Results3" >>)
TemplateFil == TemplateDocument(<< "MetaFil", "Results0" >>)

\* cls_dict of the export routes
ClsDict(c) ==
  [teacher |-> PyS(c.teacher), school |-> PyS(c.school), grade |-> c.grade,
   section |-> PyS(c.section), date_text |-> PyS(c.date_text)]

\* ------------------------------------------------------------ state
VARIABLES
  sp_call,     \* the latest call of starting_point_for: its arguments and result
  sp_prev,     \* the call of starting_point_for before it
  ct_call,     \* the latest call of compute_total: its arguments and result
  sort_call,   \* the latest call of _sort_rows: its argument and result
  fill_call,   \* the call of _fill_template_tables: its arguments and outcome
  build_call,  \* the call of _build_gst_docx_from_template: its arguments and outcome
  classes,     \* the Class table, in id order
  learners,    \* the Learner table, in id order
  request,     \* the POST of learner rows: its body, and its status once handled
  rendered,    \* the latest roster page rendered on screen
  exported,    \* the latest roster export: the rows passed to the builder and its outcome
  template_dir \* the template files of the two variants

pureVars == << sp_call, sp_prev, ct_call, sort_call >>
docVars == << fill_call, build_call >>
rosterVars == << classes, learners, request, rendered, exported, template_dir >>
vars == << pureVars, docVars, rosterVars >>

\* No call made yet.
NoCall == [fn |-> "none"]

\* The database after init_db, no request made.
RosterIdle ==
  /\ classes = << DefaultClass >>
  /\ learners = << >>
  /\ request = NoCall
  /\ rendered = NoCall
  /\ exported = NoCall
  /\ template_dir = [eng |-> TemplateEng, fil |-> TemplateFil]

\* _build_gst_docx_eng, with python-docx installed and the template file present
_build_gst_docx_eng(cls_dict, rows) ==
  _build_gst_docx_from_template(TRUE, TRUE, template_dir.eng, cls_dict, rows,
    << "E", "N", "G", "L", "I", "S", "H", " ", "G", "S", "T", " ", "R", "E", "S", "U", "L", "T", "S" >>, << "S", "T", "A", "G", "E", " ", "2", " ", "A", "D", "M", "I", "S", "S", "I", "O", "N", " ", "I", "N", " ", "P", "H", "I", "L", "-", "I", "R", "I" >>, TypeOfTestEng)

\* _build_gst_docx_fil
_build_gst_docx_fil(cls_dict, rows) ==
  _build_gst_docx_from_template(TRUE, TRUE, template_dir.fil, cls_dict, rows,
    << "F", "I", "L", "I", "P", "I", "N", "O", " ", "G", "S", "T", " ", "R", "E", "S", "U", "L", "T", "S" >>, << "S", "T", "A", "G", "E", " ", "2", " ", "A", "D", "M", "I", "S", "S", "I", "O", "N", " ", "I", "N", " ", "P", "H", "I", "L", "-", "I", "R", "I" >>, TypeOfTestFil)

Init ==
  /\ sp_call = NoCall
  /\ sp_prev = NoCall
  /\ ct_call = NoCall
  /\ sort_call = NoCall
  /\ fill_call = NoCall
  /\ build_call = NoCall
  /\ RosterIdle

\* ------------------------------------------------------------ placement engine
Grades == 1..12
Totals == 0..MaxTotal

\* One evaluation of starting_point_for(grade, total). The calls of one run are
\* those of one roster loop: the class's grade with each learner's total.
StartingPointFor ==
  \E g \in Grades, t \in Totals :
     /\ sp_call # NoCall => g = sp_call.grade
     /\ sp_prev' = sp_call
     /\ sp_call' = [fn |-> "starting_point_for", grade |-> g, total |-> t,
                    ret |-> starting_point_for(g, t)]
     /\ UNCHANGED << ct_call, sort_call, docVars, rosterVars >>

SpecStartingPoint == Init /\ [][StartingPointFor]_vars

\* The sub-score values a caller can hand over: missing, integers, and strings
\* (empty, an integer literal, an integer literal in white space, no number).
ScoreInputs ==
  { PyNone, PyI(0), PyI(9), PyI(10), PyS(<< >>), PyS(<< "7" >>),
    PyS(<< " ", "1", "2" >>), PyS(<< "a", "b" >>) }

\* One evaluation of compute_total(lit, inf, cri).
ComputeTotal ==
  \E lit \in ScoreInputs, inf \in ScoreInputs, cri \in ScoreInputs :
     /\ ct_call' = [fn |-> "compute_total", lit |-> lit, inf |-> inf, cri |-> cri,
                    ret |-> compute_total(lit, inf, cri)]
     /\ UNCHANGED << sp_call, sp_prev, sort_call, docVars, rosterVars >>

SpecComputeTotal == Init /\ [][ComputeTotal]_vars

\* ------------------------------------------------------------ C1
\* "Grade 1" .. "Grade 10", written out.
GradeLabels ==
  << << "G", "r", "a", "d", "e", " ", "1" >>, << "G", "r", "a", "d", "e", " ", "2" >>,
     << "G", "r", "a", "d", "e", " ", "3" >>, << "G", "r", "a", "d", "e", " ", "4" >>,
     << "G", "r", "a", "d", "e", " ", "5" >>, << "G", "r", "a", "d", "e", " ", "6" >>,
     << "G", "r", "a", "d", "e", " ", "7" >>, << "G", "r", "a", "d", "e", " ", "8" >>,
     << "G", "r", "a", "d", "e", " ", "9" >>, << "G", "r", "a", "d", "e", " ", "1", "0" >> >>

\* The reference policy in closed form: one below the base (grade - 1) from 16 to
\* 27, two below it up to 15, never below 1.
ReferenceLevel(g, t) ==
  IF t >= 16 THEN (IF g <= 2 THEN 1 ELSE g - 2) ELSE (IF g <= 3 THEN 1 ELSE g - 3)

\* C1: for every grade in 1..12 and every total >= 0, starting_point_for returns
\* "DISCONTINUE" exactly when the total is >= 28, and otherwise "Grade L" with L
\* the reference level (one below the base for 16..27, two below for 0..15,
\* floored at 1); grade 7 gives Grade 5 at total 20 and Grade 4 at total 5.
C1_StartingPointPolicy ==
  sp_call # NoCall =>
    LET g == sp_call.grade
        t == sp_call.total
        r == sp_call.ret
    IN  /\ (r = DISCONTINUE) <=> (t >= 28)
        /\ t < 28 => /\ ReferenceLevel(g, t) >= 1
                      /\ r = GradeLabels[ReferenceLevel(g, t)]
        /\ (g = 7 /\ t = 20) => r = GradeLabels[5]
        /\ (g = 7 /\ t = 5) => r = GradeLabels[4]

\* A call at the lower edge of the one-below tier that hits the floor, after a
\* call at the discontinue threshold.
C1_Witness ==
  /\ sp_call # NoCall /\ sp_prev # NoCall
  /\ sp_prev.total = 28 /\ sp_prev.ret = DISCONTINUE
  /\ sp_call.grade = 2 /\ sp_call.total = 16 /\ sp_call.ret = GradeLabels[1]

\* ------------------------------------------------------------ C2
\* The N of a "Grade N" label, read back from the text.
LevelOf(label) == DigitsValue(SubSeq(label, Len(GradePrefix) + 1, Len(label)))

\* Two successive calls for the same grade, the later with the larger total, both
\* below the discontinue threshold.
C2_Case ==
  /\ sp_call # NoCall /\ sp_prev # NoCall
  /\ sp_prev.grade = sp_call.grade
  /\ sp_prev.total < sp_call.total
  /\ sp_call.total < 28

\* C2 as stated: for t1 < t2 < 28 the grade number returned for t2 is less than or
\* equal to the one returned for t1 (non-increasing in the total).
C2_NonIncreasing ==
  C2_Case => LevelOf(sp_call.ret) <= LevelOf(sp_prev.ret)

\* C2 amended: for t1 < t2 < 28 the grade number returned for t2 is greater than or
\* equal to the one returned for t1 (non-decreasing in the total), and the two
\* differ by at most one.
C2_NonDecreasing ==
  C2_Case => /\ StartsWith(sp_call.ret, GradePrefix)
             /\ StartsWith(sp_prev.ret, GradePrefix)
             /\ LevelOf(sp_call.ret) >= LevelOf(sp_prev.ret)
             /\ LevelOf(sp_call.ret) <= LevelOf(sp_prev.ret) + 1

\* Grade 7: total 5 gave Grade 4 and the larger total 20 gives Grade 5.
C2_Witness ==
  /\ C2_Case
  /\ sp_call.grade = 7 /\ sp_prev.total = 5 /\ sp_call.total = 20
  /\ LevelOf(sp_prev.ret) = 4 /\ LevelOf(sp_call.ret) = 5

\* ------------------------------------------------------------ C3
\* What the claim counts an input as: its integer value when it is an integer or
\* the text of one, 0 when it is missing or not a number.
CountsAs(x) == IF x.t # "none" /\ PyInt(x).ok THEN PyInt(x).v ELSE 0

\* C3: compute_total never raises and returns a non-negative integer, the sum of
\* its three inputs with every missing or non-numeric input counted as 0.
C3_TotalNeverRaises ==
  ct_call # NoCall =>
    /\ ~ct_call.ret.raised
    /\ ct_call.ret.v >= 0
    /\ ct_call.ret.v = CountsAs(ct_call.lit) + CountsAs(ct_call.inf) + CountsAs(ct_call.cri)

\* ------------------------------------------------------------ C4
\* Row lists for _sort_rows: names with equal and different keys ("a" and " A" both
\* have the key "A"), genders of every bucket, one with no gender.
SortNames == { PyS(<< "b" >>), PyS(<< "a" >>), PyS(<< " ", "A" >>) }
SortGenders == { PyS(<< "M" >>), PyS(<< "f" >>), PyS(<< "X" >>), PyNone }
SortRowValues == [name : SortNames, gender : SortGenders]

RowLists(values, n) == UNION { [1..k -> values] : k \in 0..n }

\* A call of _sort_rows(rows) about to be made, for every row list.
InitSortRows ==
  /\ sp_call = NoCall
  /\ sp_prev = NoCall
  /\ ct_call = NoCall
  /\ fill_call = NoCall
  /\ build_call = NoCall
  /\ RosterIdle
  /\ \E rows \in RowLists(SortRowValues, MaxSortRows) :
        sort_call = [fn |-> "_sort_rows", rows |-> rows, pending |-> TRUE]

\* The evaluation of _sort_rows(rows).
SortRows ==
  /\ sort_call.fn = "_sort_rows" /\ sort_call.pending
  /\ sort_call' = [fn |-> "_sort_rows", rows |-> sort_call.rows, pending |-> FALSE,
                    ret |-> _sort_rows(sort_call.rows)]
  /\ UNCHANGED << sp_call, sp_prev, ct_call, docVars, rosterVars >>

SpecSortRows == InitSortRows /\ [][SortRows]_vars

\* The call of _sort_rows has returned.
SortReturned == sort_call.fn = "_sort_rows" /\ ~sort_call.pending

\* How often row value r occurs in the list.
Occurrences(rows, r) == Cardinality({i \in 1..Len(rows) : rows[i] = r})

\* No row's key is greater than the key of a later row.
OrderedByKey(rows) ==
  \A i \in 1..Len(rows), j \in 1..Len(rows) :
     i < j => ~KeyLess(SortKey(rows[j]), SortKey(rows[i]))

\* The rows of one key, in the order of the list.
RowsOfKey(rows, k) == SelectSeq(rows, LAMBDA r : SortKey(r) = k)

\* C4: _sort_rows returns a permutation of its input, ordered by the key (gender
\* bucket, trimmed upper-cased name), with the rows of equal key in their input
\* order; every M row precedes every F row; a list already in order is returned
\* unchanged.
C4_StableSortByKey ==
  SortReturned =>
    LET in == sort_call.rows
        out == sort_call.ret
    IN  /\ Len(out) = Len(in)
        /\ \A r \in SortRowValues : Occurrences(out, r) = Occurrences(in, r)
        /\ OrderedByKey(out)
        /\ \A r \in SortRowValues : RowsOfKey(out, SortKey(r)) = RowsOfKey(in, SortKey(r))
        /\ \A i \in 1..Len(out), j \in 1..Len(out) :
              (_gender_bucket(out[i].gender) = 0 /\ _gender_bucket(out[j].gender) = 1) => i < j
        /\ OrderedByKey(in) => out = in

\* An F row given before two M rows of equal key and different names: the sort
\* moved the M rows to the front in their input order.
C4_Witness ==
  /\ SortReturned
  /\ Len(sort_call.rows) = 3
  /\ _gender_bucket(sort_call.rows[1].gender) = 1
  /\ _gender_bucket(sort_call.rows[2].gender) = 0
  /\ SortKey(sort_call.rows[2]) = SortKey(sort_call.rows[3])
  /\ sort_call.rows[2] # sort_call.rows[3]
  /\ sort_call.ret = << sort_call.rows[2], sort_call.rows[3], sort_call.rows[1] >>

\* ------------------------------------------------------------ template population
\* Class header fields as the export routes pass them: texts, perhaps empty or
\* missing, and the grade.
ClsValues ==
  { [teacher |-> PyS(<< "C", "r", "u", "z" >>), school |-> PyS(<< "R", "i", "z", "a", "l", " ", "E", "S" >>), grade |-> 7,
     section |-> PyS(<< "a" >>), date_text |-> PyS(<< "2", "0", "2", "4", "-", "0", "1", "-", "0", "5" >>)],
    [teacher |-> PyNone, school |-> PyS(<< >>), grade |-> 12,
     section |-> PyS(<< "B", " ", "2" >>), date_text |-> PyS(<< "J", "a", "n" >>)] }

\* Result rows: name, gender, score and start label.
DocRowValues ==
  { [name |-> PyS(<< "a", "n", "a" >>), gender |-> PyS(<< "f" >>), score |-> 20, start |-> PyS(<< "G", "r", "a", "d", "e", " ", "5" >>)],
    [name |-> PyS(<< "B", "o" >>), gender |-> PyS(<< "M" >>), score |-> 5, start |-> PyS(<< "G", "r", "a", "d", "e", " ", "4" >>)] }

\* The templates: every list of at most MaxTables tables of the catalogue.
Templates == UNION { [1..k -> TableKinds] : k \in 0..MaxTables }

\* A call of _fill_template_tables about to be made on a freshly opened template.
InitFill ==
  /\ sp_call = NoCall /\ sp_prev = NoCall /\ ct_call = NoCall /\ sort_call = NoCall
  /\ build_call = NoCall
  /\ RosterIdle
  /\ \E kinds \in Templates, cls_dict \in ClsValues, rows \in RowLists(DocRowValues, MaxDocRows),
        type_of_test_text \in {TypeOfTestEng, TypeOfTestFil} :
        /\ (type_of_test_text = TypeOfTestFil) <=> (cls_dict.grade = 12)
        /\ fill_call = [fn |-> "_fill_template_tables", pending |-> TRUE,
                        doc |-> TemplateDocument(kinds), cls_dict |-> cls_dict, rows |-> rows,
                        type_of_test_text |-> type_of_test_text]

\* The evaluation of _fill_template_tables(doc, cls_dict, rows, type_of_test_text).
FillTemplateTables ==
  /\ fill_call.fn = "_fill_template_tables" /\ fill_call.pending
  /\ fill_call' = [fn |-> "_fill_template_tables", pending |-> FALSE,
                   doc |-> fill_call.doc, cls_dict |-> fill_call.cls_dict,
                   rows |-> fill_call.rows, type_of_test_text |-> fill_call.type_of_test_text,
                   out |-> _fill_template_tables(fill_call.doc, fill_call.cls_dict,
                                                 fill_call.rows, fill_call.type_of_test_text)]
  /\ UNCHANGED << pureVars, build_call, rosterVars >>

SpecFill == InitFill /\ [][FillTemplateTables]_vars

\* The call of _fill_template_tables has ended (returned or raised).
FillEnded == fill_call.fn = "_fill_template_tables" /\ ~fill_call.pending

\* ------------------------------------------------------------ C5
\* The first table in document order that satisfies the predicate and is not
\* table `except` (0: none excepted); 0 when there is none.
FirstTable(tables, P(_), except) ==
  LET hits == {i \in 1..Len(tables) : i # except /\ P(tables[i])}
  IN  IF hits = {} THEN 0 ELSE CHOOSE i \in hits : \A j \in hits : i <= j

\* C5 as stated: the metadata table selected is the first table that satisfies the
\* metadata predicate and the results table selected is the first table that
\* satisfies the results predicate, each independently of the other.
C5_FirstMatchIndependent ==
  FillEnded =>
    /\ fill_call.out.found.meta_tbl = FirstTable(fill_call.doc.tables, _looks_like_meta_table, 0)
    /\ fill_call.out.found.results_tbl = FirstTable(fill_call.doc.tables, _looks_like_results_table, 0)

\* C5 amended: the metadata table selected is the first table that satisfies the
\* metadata predicate, and the results table selected is the first table, other
\* than the one selected as the metadata table, that satisfies the results
\* predicate.
C5_FirstMatchExceptMeta ==
  FillEnded =>
    LET meta == FirstTable(fill_call.doc.tables, _looks_like_meta_table, 0)
    IN  /\ fill_call.out.found.meta_tbl = meta
        /\ fill_call.out.found.results_tbl =
             FirstTable(fill_call.doc.tables, _looks_like_results_table, meta)

\* A first table that satisfies both predicates was selected as the metadata table
\* and the second table as the results table.
C5_Witness ==
  /\ FillEnded
  /\ Len(fill_call.doc.tables) = 2
  /\ _looks_like_meta_table(fill_call.doc.tables[1])
  /\ _looks_like_results_table(fill_call.doc.tables[1])
  /\ fill_call.out.found = [meta_tbl |-> 1, results_tbl |-> 2]

\* ------------------------------------------------------------ C6
\* Both tables were located.
BothFound == fill_call.out.found.meta_tbl # 0 /\ fill_call.out.found.results_tbl # 0

\* C6, for a call that located both tables: the outcome is a boolean, never an
\* exception, and it is True also when a located table has too few rows or cells.
C6_BooleanNeverException ==
  (FillEnded /\ BothFound) => (~fill_call.out.raised /\ fill_call.out.ret = TRUE)

\* C6, for a call that returned False: both the metadata table and the results
\* table are missing from the document.
C6_FalseOnlyWhenBothMissing ==
  (FillEnded /\ ~fill_call.out.raised /\ fill_call.out.ret = FALSE) =>
    /\ FirstTable(fill_call.doc.tables, _looks_like_meta_table, 0) = 0
    /\ FirstTable(fill_call.doc.tables, _looks_like_results_table, 0) = 0

\* ------------------------------------------------------------ C7
\* The located metadata table before and after the call.
MetaBefore == fill_call.doc.tables[fill_call.out.found.meta_tbl]
MetaAfter == fill_call.out.doc.tables[fill_call.out.found.meta_tbl]

\* The six value cells of a metadata table (rows and columns counted from 0).
ValueCells == {0, 1, 2} \X {1, 3}

\* C7: when the metadata table is populated, every cell in columns 0 and 2 (the
\* label cells) is unchanged in text, run styling and paragraph formatting; only
\* the six value cells are modified.
C7_LabelCellsUntouched ==
  (FillEnded /\ BothFound) =>
    \A r \in 0..(NRows(MetaBefore) - 1), c \in 0..(NCols(MetaBefore) - 1) :
       << r, c >> \notin ValueCells => TblCell(MetaAfter, r, c) = TblCell(MetaBefore, r, c)

\* What does hold of the label cells: their runs (text, bold, underline, color)
\* are unchanged.
C7_LabelRunsUntouched ==
  (FillEnded /\ BothFound) =>
    \A r \in 0..(NRows(MetaBefore) - 1), c \in {0, 2} :
       /\ Len(TblCell(MetaAfter, r, c).paragraphs) = Len(TblCell(MetaBefore, r, c).paragraphs)
       /\ \A k \in 1..Len(TblCell(MetaBefore, r, c).paragraphs) :
            TblCell(MetaAfter, r, c).paragraphs[k].runs = TblCell(MetaBefore, r, c).paragraphs[k].runs

\* ------------------------------------------------------------ C8
\* The call returned True on a template whose located tables are well formed: a
\* metadata table of 3 rows and 4 columns, a results table of 5 columns.
FilledWellFormed ==
  /\ FillEnded /\ BothFound
  /\ ~fill_call.out.raised /\ fill_call.out.ret = TRUE
  /\ NRows(MetaBefore) = 3 /\ NCols(MetaBefore) = 4
  /\ NCols(fill_call.doc.tables[fill_call.out.found.results_tbl]) = 5

ResultsAfter == fill_call.out.doc.tables[fill_call.out.found.results_tbl]

\* The run that carries a written cell's text: the last run of its only paragraph.
ValueRun(cell) == cell.paragraphs[1].runs[Len(cell.paragraphs[1].runs)]

\* C8: after a successful call on a well-formed template the metadata cells
\* (0,1),(0,3),(1,1),(1,3),(2,1),(2,3) read the upper-cased teacher, grade, school,
\* section, type-of-test label and date, each underlined and not bold, and results
\* row i reads str(i), the upper-cased name, the upper-cased gender, str(score) and
\* the upper-cased start label of the i-th input row.
C8_RoundTrip ==
  FilledWellFormed =>
    LET cls == fill_call.cls_dict
        expected == [rc \in ValueCells |->
                       CASE rc = << 0, 1 >> -> Upper(OrEmpty(cls.teacher))
                         [] rc = << 0, 3 >> -> Upper(PyStr(cls.grade))
                         [] rc = << 1, 1 >> -> Upper(OrEmpty(cls.school))
                         [] rc = << 1, 3 >> -> Upper(OrEmpty(cls.section))
                         [] rc = << 2, 1 >> -> Upper(OrEmpty(fill_call.type_of_test_text))
                         [] rc = << 2, 3 >> -> Upper(OrEmpty(cls.date_text))]
    IN  /\ \A rc \in ValueCells :
             /\ CellText(TblCell(MetaAfter, rc[1], rc[2])) = expected[rc]
             /\ ValueRun(TblCell(MetaAfter, rc[1], rc[2])).underline = "True"
             /\ ValueRun(TblCell(MetaAfter, rc[1], rc[2])).bold = "False"
        /\ NRows(ResultsAfter) >= 1 + Len(fill_call.rows)
        /\ \A i \in 1..Len(fill_call.rows) :
             LET rec == fill_call.rows[i]
             IN  /\ CellText(TblCell(ResultsAfter, i, 0)) = PyStr(i)
                 /\ CellText(TblCell(ResultsAfter, i, 1)) = Upper(OrEmpty(rec.name))
                 /\ CellText(TblCell(ResultsAfter, i, 2)) = Upper(OrEmpty(rec.gender))
                 /\ CellText(TblCell(ResultsAfter, i, 3)) = PyStr(rec.score)
                 /\ CellText(TblCell(ResultsAfter, i, 4)) = Upper(OrEmpty(rec.start))

\* Two rows in an order that is not the sorted one, written to a header-only
\* results table: row 1 reads 1, ANA, F, 20, GRADE 5 and the teacher cell CRUZ.
C8_Witness ==
  /\ FilledWellFormed
  /\ Len(fill_call.rows) = 2
  /\ _sort_rows(fill_call.rows) # fill_call.rows
  /\ NRows(fill_call.doc.tables[fill_call.out.found.results_tbl]) = 1
  /\ CellText(TblCell(MetaAfter, 0, 1)) = << "C", "R", "U", "Z" >>
  /\ CellText(TblCell(ResultsAfter, 1, 0)) = << "1" >>
  /\ CellText(TblCell(ResultsAfter, 1, 1)) = << "A", "N", "A" >>
  /\ CellText(TblCell(ResultsAfter, 1, 2)) = << "F" >>
  /\ CellText(TblCell(ResultsAfter, 1, 3)) = << "2", "0" >>
  /\ CellText(TblCell(ResultsAfter, 1, 4)) = << "G", "R", "A", "D", "E", " ", "5" >>

\* ------------------------------------------------------------ export orchestrator
\* The two variants' titles and type-of-test label.
Variants ==
  { [title1 |-> << "E", "N", "G", "L", "I", "S", "H", " ", "G", "S", "T", " ", "R", "E", "S", "U", "L", "T", "S" >>, title2 |-> << "S", "T", "A", "G", "E", " ", "2", " ", "A", "D", "M", "I", "S", "S", "I", "O", "N", " ", "I", "N", " ", "P", "H", "I", "L", "-", "I", "R", "I" >>,
     type_of_test_text |-> TypeOfTestEng],
    [title1 |-> << "F", "I", "L", "I", "P", "I", "N", "O", " ", "G", "S", "T", " ", "R", "E", "S", "U", "L", "T", "S" >>, title2 |-> << "S", "T", "A", "G", "E", " ", "2", " ", "A", "D", "M", "I", "S", "S", "I", "O", "N", " ", "I", "N", " ", "P", "H", "I", "L", "-", "I", "R", "I" >>,
     type_of_test_text |-> TypeOfTestFil] }

\* A call of _build_gst_docx_from_template about to be made: with the document
\* library and the template file present, for every template, class and row list;
\* without one of them, for every row list.
InitBuild ==
  /\ sp_call = NoCall /\ sp_prev = NoCall /\ ct_call = NoCall /\ sort_call = NoCall
  /\ fill_call = NoCall
  /\ RosterIdle
  /\ \E docx_enabled \in BOOLEAN, isfile \in BOOLEAN, kinds \in Templates,
        cls_dict \in ClsValues, rows \in RowLists(DocRowValues, MaxDocRows), variant \in Variants :
        /\ (variant.type_of_test_text = TypeOfTestFil) <=> (cls_dict.grade = 12)
        /\ (~docx_enabled \/ ~isfile) => (kinds = << >> /\ cls_dict.grade = 7)
        /\ build_call = [fn |-> "_build_gst_docx_from_template", pending |-> TRUE,
                         docx_enabled |-> docx_enabled, isfile |-> isfile,
                         template |-> TemplateDocument(kinds), cls_dict |-> cls_dict,
                         rows |-> rows, variant |-> variant]

\* The evaluation of _build_gst_docx_from_template.
BuildGstDocxFromTemplate ==
  /\ build_call.fn = "_build_gst_docx_from_template" /\ build_call.pending
  /\ build_call' = [build_call EXCEPT !.pending = FALSE] @@
                   [out |-> _build_gst_docx_from_template(
                              build_call.docx_enabled, build_call.isfile, build_call.template,
                              build_call.cls_dict, build_call.rows, build_call.variant.title1,
                              build_call.variant.title2, build_call.variant.type_of_test_text)]
  /\ UNCHANGED << pureVars, fill_call, rosterVars >>

SpecBuild == InitBuild /\ [][BuildGstDocxFromTemplate]_vars

\* The call has ended with the document library and the template file present.
BuildEnded ==
  /\ build_call.fn = "_build_gst_docx_from_template" /\ ~build_call.pending
  /\ build_call.docx_enabled /\ build_call.isfile

\* ------------------------------------------------------------ C9
\* C9: with the document library available and the template an existing file the
\* call never raises and returns a document for every template and row list:
\* either _fill_template_tables returned True, or it returned False without
\* having written anything and _fallback_build built the layout.
C9_AlwaysReturnsDocument ==
  BuildEnded =>
    /\ build_call.out.outcome = "returned"
    /\ \/ (build_call.out.fill.ret = TRUE /\ ~build_call.out.fallback)
       \/ /\ build_call.out.fill.ret = FALSE
          /\ build_call.out.fill.doc = _docx_set_defaults(build_call.template)
          /\ build_call.out.fallback
          /\ Len(build_call.out.bio.tables) = Len(build_call.template.tables) + 2

\* What does hold: a call that does not raise returns a document as C9 says.
C9_ReturnedDocumentComplete ==
  (BuildEnded /\ build_call.out.outcome = "returned") =>
    \/ (build_call.out.fill.ret = TRUE /\ ~build_call.out.fallback)
    \/ /\ build_call.out.fill.ret = FALSE
       /\ build_call.out.fill.doc = _docx_set_defaults(build_call.template)
       /\ build_call.out.fallback
       /\ Len(build_call.out.bio.tables) = Len(build_call.template.tables) + 2

\* ------------------------------------------------------------ GST roster routes
\* The grades of the stored class.
RosterGrades == {2, 7}

\* A posted learner row (JSON).
PostedRow(name, gender, took_eng, took_fil, eng, fil) ==
  [name |-> name, gender |-> gender, took_eng |-> took_eng, took_fil |-> took_fil,
   eng_literal |-> eng[1], eng_inferential |-> eng[2], eng_critical |-> eng[3],
   fil_literal |-> fil[1], fil_inferential |-> fil[2], fil_critical |-> fil[3]]

\* The rows a client posts: a learner discontinued in English (29) and at 20 in
\* Filipino; one at 20 and 5; one who took only the Filipino test, at 28; a second
\* Juan with sub-scores sent as text, who took only the English test; one with a
\* sub-score that is no number; one without a name, at 27 and 16; one with negative
\* sub-scores, at -3 and 27.
PostedRows ==
  { PostedRow(PyS(<< "M", "a", "r", "i", "a" >>), PyS(<< "F" >>), TRUE, TRUE,
              << PyI(10), PyI(10), PyI(9) >>, << PyI(7), PyI(7), PyI(6) >>),
    PostedRow(PyS(<< "J", "u", "a", "n" >>), PyS(<< "M" >>), TRUE, TRUE,
              << PyI(7), PyI(7), PyI(6) >>, << PyI(2), PyI(2), PyI(1) >>),
    PostedRow(PyS(<< " ", "a", "n", "a", " " >>), PyS(<< "f", "e", "m", "a", "l", "e" >>), FALSE, TRUE,
              << PyI(0), PyNone, PyS(<< >>) >>, << PyI(10), PyI(10), PyI(8) >>),
    PostedRow(PyS(<< "J", "u", "a", "n" >>), PyS(<< "m" >>), TRUE, FALSE,
              << PyS(<< "5" >>), PyS(<< " ", "4" >>), PyI(0) >>, << PyI(0), PyI(0), PyI(0) >>),
    PostedRow(PyS(<< "b", "o" >>), PyNone, TRUE, TRUE,
              << PyS(<< "a", "b" >>), PyI(1), PyI(1) >>, << PyI(1), PyI(1), PyI(1) >>),
    PostedRow(PyNone, PyS(<< "x" >>), TRUE, TRUE,
              << PyI(9), PyI(9), PyI(9) >>, << PyI(8), PyI(8), PyNone >>),
    PostedRow(PyS(<< "L", "e", "a" >>), PyS(<< "F" >>), TRUE, TRUE,
              << PyS(<< "-", "3" >>), PyI(0), PyI(0) >>, << PyI(30), PyI(-1), PyI(-2) >>) }

\* The class ids a request names: the stored class and one that does not exist.
ClassIds == {1, 2}

\* A database holding one class and no learner, and a POST of learner rows about
\* to be handled.
InitRoster ==
  /\ sp_call = NoCall /\ sp_prev = NoCall /\ ct_call = NoCall /\ sort_call = NoCall
  /\ fill_call = NoCall /\ build_call = NoCall
  /\ \E g \in RosterGrades :
        classes = << [DefaultClass EXCEPT !.grade = g, !.teacher = << "C", "r", "u", "z" >>] >>
  /\ learners = << >>
  /\ \E class_id \in ClassIds, rows \in RowLists(PostedRows, MaxLearners) :
        /\ class_id # 1 => rows = << >>
        /\ request = [fn |-> "api_learners_save", pending |-> TRUE,
                      class_id |-> class_id, rows |-> rows]
  /\ rendered = NoCall
  /\ exported = NoCall
  /\ template_dir = [eng |-> TemplateEng, fil |-> TemplateFil]

\* POST /api/class/<class_id>/learners/save
ApiLearnersSave ==
  /\ request.fn = "api_learners_save" /\ request.pending
  /\ LET r == api_learners_save_on(classes, learners, request.class_id, request.rows)
     IN  /\ learners' = r.learners
         /\ request' = [fn |-> "api_learners_save", pending |-> FALSE,
                        class_id |-> request.class_id, rows |-> request.rows,
                        status |-> r.status]
  /\ UNCHANGED << pureVars, docVars, classes, rendered, exported, template_dir >>

\* get_or_404 on an unknown class: the request ends with 404.
NotFound(route, class_id) == [route |-> route, class_id |-> class_id, found |-> FALSE]

\* GET /gst/en/<class_id>: the rows rendered, with the class and the learners they
\* were computed from.
GstEn ==
  /\ \E class_id \in ClassIds :
        \/ /\ GetClass(classes, class_id) = {}
           /\ rendered' = NotFound("gst_en", class_id)
        \/ \E c \in GetClass(classes, class_id) : \E rows \in {gst_en_rows(c, learners)} :
              rendered' = [route |-> "gst_en", class_id |-> class_id, found |-> TRUE,
                         cls |-> c, learners |-> learners, rows |-> rows]
  /\ UNCHANGED << pureVars, docVars, classes, learners, request, exported, template_dir >>

\* GET /gst/en/<class_id>/export: the rows handed to the builder and the builder's
\* outcome.
ExportGstEnDocx ==
  /\ \E class_id \in ClassIds :
        \/ /\ GetClass(classes, class_id) = {}
           /\ exported' = NotFound("gst_en", class_id)
        \/ \E c \in GetClass(classes, class_id) : \E rows \in {export_gst_en_rows(c, learners)} :
              \E cls_dict \in {ClsDict(c)} :
                 exported' = [route |-> "gst_en", class_id |-> class_id, found |-> TRUE,
                              cls |-> c, learners |-> learners, rows |-> rows,
                              out |-> _build_gst_docx_eng(cls_dict, rows)]
  /\ UNCHANGED << pureVars, docVars, classes, learners, request, rendered, template_dir >>

\* GET /gst/fil/<class_id>
GstFil ==
  /\ \E class_id \in ClassIds :
        \/ /\ GetClass(classes, class_id) = {}
           /\ rendered' = NotFound("gst_fil", class_id)
        \/ \E c \in GetClass(classes, class_id) : \E rows \in {gst_fil_rows(c, learners)} :
              rendered' = [route |-> "gst_fil", class_id |-> class_id, found |-> TRUE,
                         cls |-> c, learners |-> learners, rows |-> rows]
  /\ UNCHANGED << pureVars, docVars, classes, learners, request, exported, template_dir >>

\* GET /gst/fil/<class_id>/export
ExportGstFilDocx ==
  /\ \E class_id \in ClassIds :
        \/ /\ GetClass(classes, class_id) = {}
           /\ exported' = NotFound("gst_fil", class_id)
        \/ \E c \in GetClass(classes, class_id) : \E rows \in {export_gst_fil_rows(c, learners)} :
              \E cls_dict \in {ClsDict(c)} :
                 exported' = [route |-> "gst_fil", class_id |-> class_id, found |-> TRUE,
                              cls |-> c, learners |-> learners, rows |-> rows,
                              out |-> _build_gst_docx_fil(cls_dict, rows)]
  /\ UNCHANGED << pureVars, docVars, classes, learners, request, rendered, template_dir >>

NextRoster == ApiLearnersSave \/ GstEn \/ ExportGstEnDocx \/ GstFil \/ ExportGstFilDocx

SpecRoster == InitRoster /\ [][NextRoster]_vars

\* ------------------------------------------------------------ C10
\* The response shows the stored class and learners as they are now.
Current(resp) ==
  /\ resp # NoCall /\ resp.found
  /\ resp.learners = learners
  /\ resp.cls \in GetClass(classes, resp.class_id)

\* A learner's total in the variant of a route, from the stored sub-scores.
TotalIn(route, s) ==
  IF route = "gst_en" THEN s.eng_literal + s.eng_inferential + s.eng_critical
  ELSE s.fil_literal + s.fil_inferential + s.fil_critical

TookIn(route, s) == IF route = "gst_en" THEN s.took_eng ELSE s.took_fil

\* The learners of the response's class who took its variant's test with a total
\* below 28.
OnRoster(resp) ==
  SelectSeq(learners, LAMBDA s : /\ s.class_id = resp.class_id
                                 /\ TookIn(resp.route, s)
                                 /\ TotalIn(resp.route, s) < 28)

\* The row of a learner on the roster.
RosterRow(resp, s) ==
  [name |-> PyS(s.name), gender |-> PyS(s.gender), score |-> TotalIn(resp.route, s),
   start |-> PyS(GradeLabels[ReferenceLevel(resp.cls.grade, TotalIn(resp.route, s))])]

\* The rows are exactly the rows of the learners on the roster.
ExactRoster(resp) ==
  LET on == OnRoster(resp)
  IN  /\ Len(resp.rows) = Len(on)
      /\ \A i \in 1..Len(on) :
           Occurrences(resp.rows, RosterRow(resp, on[i]))
             = Cardinality({j \in 1..Len(on) : RosterRow(resp, on[j]) = RosterRow(resp, on[i])})
      /\ \A i \in 1..Len(resp.rows) :
           resp.rows[i].score < 28 /\ resp.rows[i].start # PyS(DISCONTINUE)

\* C10: for the stored class and learners and each variant, the roster rendered on
\* screen and the roster passed to the document builder (and the one the builder
\* writes) are the same rows in the same order, and each holds exactly the
\* learners who took that variant's test with a total below 28.
C10_SameRosterWithoutDiscontinued ==
  /\ Current(rendered) => ExactRoster(rendered)
  /\ Current(exported) => ExactRoster(exported)
  /\ (Current(rendered) /\ Current(exported) /\ rendered.route = exported.route
        /\ rendered.class_id = exported.class_id) =>
       /\ exported.rows = rendered.rows
       /\ exported.out.rows = rendered.rows

\* Two learners stored, one of them discontinued in English (total 29): the English
\* page and the English export both show the other one only.
C10_Witness ==
  /\ Current(rendered) /\ Current(exported)
  /\ rendered.route = "gst_en" /\ exported.route = "gst_en"
  /\ Len(learners) = 2
  /\ \E i \in 1..2 : learners[i].took_eng /\ TotalIn("gst_en", learners[i]) = 29
  /\ Len(rendered.rows) = 1 /\ exported.rows = rendered.rows
  /\ rendered.rows[1].score = 20

\* C3, for api_learners_save: a request whose rows hold a missing or non-numeric
\* sub-score is not rejected and its learners are stored.
C3_SaveNeverRejects ==
  (request.fn = "api_learners_save" /\ ~request.pending /\ request.class_id = 1) =>
    /\ request.status = 200
    /\ Len(learners) = Len(request.rows)

\* ------------------------------------------------------------ class routes
\* Most classes stored.
MaxClasses == 2

\* request.form.get(key, default): the submitted text, or the default for a field
\* the form does not hold (PyNone).
FormGet(field, default) == IF field = PyNone THEN default ELSE field

\* x or d
PyOr(x, d) == IF Truthy(x) THEN x ELSE d

\* request.form.get(key, "").strip()
StrippedField(field) == Strip(FormGet(field, PyS(<< >>)).s)

\* (request.form.get(key) or "").strip()
StrippedOrEmpty(field) == Strip(OrEmpty(field))

\* init_db: a class of grade 7 added to an empty Class table and committed
init_db_on(cs) == IF Len(cs) = 0 THEN << DefaultClass >> ELSE cs

\* class_new: Class(...) built from the form, its arguments evaluated in order;
\* int() of the grade raises before anything is added (500, nothing stored);
\* otherwise the class is added with the next id and committed.
class_new_on(cs, form) ==
  LET g == PyInt(PyOr(FormGet(form.grade, PyI(7)), PyI(7)))
  IN  IF ~g.ok THEN [status |-> 500, exc |-> g.exc, classes |-> cs]
      ELSE [status |-> 302,
            classes |-> Append(cs,
              [id |-> Len(cs) + 1,
               teacher |-> StrippedField(form.teacher),
               school |-> StrippedField(form.school),
               grade |-> clamp(g.v, 1, 12),
               section |-> StrippedField(form.section),
               screening_level_eng |-> StrippedOrEmpty(form.screening_level_eng),
               screening_level_fil |-> StrippedOrEmpty(form.screening_level_fil),
               date_text |-> StrippedField(form.date_text)])]

\* class_update_meta where every assignment to c is written to the table at once.
class_update_meta_autocommit(cs, class_id, form) ==
  IF GetClass(cs, class_id) = {} THEN [status |-> 404, classes |-> cs]
  ELSE LET i == CHOOSE j \in 1..Len(cs) : cs[j].id = class_id
           c == [cs[i] EXCEPT !.teacher = StrippedField(form.teacher),
                              !.school = StrippedField(form.school)]
           g == PyInt(PyOr(FormGet(form.grade, PyOr(PyI(cs[i].grade), PyI(7))), PyI(7)))
       IN  IF ~g.ok THEN [status |-> 500, exc |-> g.exc, classes |-> [cs EXCEPT ![i] = c]]
           ELSE [status |-> 302,
                 classes |-> [cs EXCEPT ![i] =
                   [c EXCEPT !.grade = clamp(g.v, 1, 12),
                             !.section = StrippedField(form.section),
                             !.screening_level_eng = StrippedOrEmpty(form.screening_level_eng),
                             !.screening_level_fil = StrippedOrEmpty(form.screening_level_fil),
                             !.date_text = StrippedField(form.date_text)]]]

\* class_update_meta: 404 for an unknown class; teacher and school are assigned
\* to the session's object c, then int() of the grade may raise: the request ends
\* (500) without a commit and the session is discarded, the table unchanged, with
\* c left as it was assigned so far; otherwise the remaining fields are assigned
\* and c is committed.
class_update_meta_on(cs, class_id, form) ==
  IF GetClass(cs, class_id) = {} THEN [status |-> 404, classes |-> cs]
  ELSE LET i == CHOOSE j \in 1..Len(cs) : cs[j].id = class_id
           c == [cs[i] EXCEPT !.teacher = StrippedField(form.teacher),
                              !.school = StrippedField(form.school)]
           g == PyInt(PyOr(FormGet(form.grade, PyOr(PyI(cs[i].grade), PyI(7))), PyI(7)))
       IN  IF ~g.ok THEN [status |-> 500, exc |-> g.exc, classes |-> cs, c |-> c]
           ELSE [status |-> 302,
                 classes |-> [cs EXCEPT ![i] =
                   [c EXCEPT !.grade = clamp(g.v, 1, 12),
                             !.section = StrippedField(form.section),
                             !.screening_level_eng = StrippedOrEmpty(form.screening_level_eng),
                             !.screening_level_fil = StrippedOrEmpty(form.screening_level_fil),
                             !.date_text = StrippedField(form.date_text)]]]

\* The grade field of a submitted form: missing, empty, below 1 ("0", "-3"), in
\* range ("5"), above 12 ("13"), and not an integer ("abc", "7.5").
GradeFields ==
  { PyNone, PyS(<< >>), PyS(<< "0" >>), PyS(<< "-", "3" >>), PyS(<< "5" >>), PyS(<< "1", "3" >>),
    PyS(<< "a", "b", "c" >>), PyS(<< "7", ".", "5" >>) }

\* The teacher field of a submitted form.
TeacherFields == { PyNone, PyS(<< " ", "C", "r", "u", "z", " " >>) }

\* The forms submitted.
ClassForms ==
  { [teacher |-> t, school |-> PyS(<< "R", "i", "z", "a", "l", " ", "E", "S" >>), grade |-> g, section |-> PyS(<< "A" >>),
     screening_level_eng |-> PyNone, screening_level_fil |-> PyS(<< "G", "S", "T", " " >>),
     date_text |-> PyNone] : t \in TeacherFields, g \in GradeFields }

\* An empty database, before init_db.
InitClasses ==
  /\ sp_call = NoCall /\ sp_prev = NoCall /\ ct_call = NoCall /\ sort_call = NoCall
  /\ fill_call = NoCall /\ build_call = NoCall
  /\ classes = << >>
  /\ learners = << >>
  /\ request = NoCall
  /\ rendered = NoCall
  /\ exported = NoCall
  /\ template_dir = [eng |-> TemplateEng, fil |-> TemplateFil]

\* init_db()
InitDb ==
  /\ classes' = init_db_on(classes)
  /\ request' = [fn |-> "init_db"]
  /\ UNCHANGED << pureVars, docVars, learners, rendered, exported, template_dir >>

\* POST /class/new
ClassNew ==
  /\ Len(classes) < MaxClasses
  /\ \E form \in ClassForms : \E r \in {class_new_on(classes, form)} :
        /\ classes' = r.classes
        /\ request' = [fn |-> "class_new", form |-> form, status |-> r.status]
  /\ UNCHANGED << pureVars, docVars, learners, rendered, exported, template_dir >>

\* POST /class/<class_id>/meta
ClassUpdateMeta ==
  /\ \E class_id \in ClassIds, form \in ClassForms :
       \E r \in {class_update_meta_on(classes, class_id, form)} :
        /\ classes' = r.classes
        /\ request' = [fn |-> "class_update_meta", class_id |-> class_id, form |-> form,
                       status |-> r.status]
  /\ UNCHANGED << pureVars, docVars, learners, rendered, exported, template_dir >>

NextClasses == InitDb \/ ClassNew \/ ClassUpdateMeta

SpecClasses == InitClasses /\ [][NextClasses]_vars

\* ------------------------------------------------------------ C11
\* The grade of a form converts: a missing or empty field stands for an integer
\* (7, or the stored grade), and a text converts when it is an optional sign and
\* digits, white space around it ignored.
Converts(field) ==
  \/ field = PyNone
  \/ field.s = << >>
  \/ LET s == Strip(field.s)
         d == IF s # << >> /\ s[1] \in {"+", "-"} THEN Tail(s) ELSE s
     IN  d # << >> /\ \A i \in 1..Len(d) : d[i] \in {"0", "1", "2", "3", "4", "5", "6", "7", "8", "9"}

\* Every stored grade is an integer in 1..12.
GradesInRange == \A i \in 1..Len(classes) : classes[i].grade \in 1..12

\* A step handles a class_new or class_update_meta request whose grade does not
\* convert.
UnconvertibleRequest ==
  /\ request'.fn \in {"class_new", "class_update_meta"}
  /\ ~Converts(request'.form.grade)

\* C11: after any sequence of init_db, class_new and class_update_meta requests
\* with arbitrary submitted grades (below 1, above 12, empty, missing or not a
\* number) the grade stored for every class is an integer in 1..12, and a request
\* whose grade cannot be converted changes no stored class.
C11_GradeClamped ==
  /\ []GradesInRange
  /\ [][UnconvertibleRequest => classes' = classes]_vars

\* Two classes stored, one with grade 1 (submitted below 1) and one with grade 12
\* (submitted above 12), and the latest request an update of an existing class
\* with a grade that does not convert and a teacher other than the stored one.
C11_Witness ==
  /\ Len(classes) = 2
  /\ \E i, j \in 1..2 : classes[i].grade = 1 /\ classes[j].grade = 12
  /\ request.fn = "class_update_meta" /\ request.status = 500
  /\ ~Converts(request.form.grade)
  /\ \E i \in 1..2 : /\ classes[i].id = request.class_id
                     /\ classes[i].teacher # StrippedField(request.form.teacher)

\* ------------------------------------------------------------ C12
\* The located results table before the call.
ResultsBefore == fill_call.doc.tables[fill_call.out.found.results_tbl]

\* The texts of the cells of row i (counted from 0) of a table.
RowTexts(tbl, i) == [k \in 1..Len(tbl.rows[i + 1]) |-> CellText(tbl.rows[i + 1][k])]

\* The larger of two numbers.
Larger(a, b) == IF a >= b THEN a ELSE b

====
